---- MODULE Spec2Model ----
(***************************************************************************)
(* Model of the multi-agent pipeline of app/back/services/ai_service.py:   *)
(* the orchestrator's routing, the four specialist handlers, the           *)
(* synthesizer, the streaming entry point chat_stream (direct node calls,  *)
(* one step per yield) and the non-streaming entry point chat (the         *)
(* compiled LangGraph workflow, one step per node).                        *)
(*                                                                         *)
(* Strings are sequences of tokens.  A token says what kind of text it is: *)
(*   "lit"   a fixed phrase written in the code                            *)
(*   "nl"    natural-language text returned by a summarising LLM call      *)
(*   "raw"   output of a tool (result table, search hits, stdout)          *)
(*   "exc"   the text of an exception, str(e)                              *)
(*   "trace" a formatted stack trace                                       *)
(*   "code"  generated source code (Python, Mermaid)                       *)
(*   "fence" a markdown code fence                                         *)
(***************************************************************************)
EXTENDS Integers, Sequences, FiniteSets, TLC

\* ------------------------------------------------------------------ bounds
\* Longest list of names the classification call proposes.
MaxProposed == 3

\* Requests the endpoints of routers/ai.py receive one after another.
MaxRequests == 3

\* Longest chat history handed to the synthesizer.
MaxHistory == 7

\* Threads that use get_connection at the same time, and the pool's size
\* (create_pool's max) scaled down to be smaller than that.
MaxUsers == 3
PoolMax == 2

\* ------------------------------------------------------- program constants
\* raw_result[:200] in the summarisers' fallbacks.
FallbackChars == 200

\* chat_history[-6:] in _format_chat_history.
HistoryWindow == 6

\* content[:200] of an assistant message in _format_chat_history.
AssistantChars == 200

valid_specialists ==
    <<"sql_specialist", "search_specialist", "python_specialist", "diagram_specialist">>

Registry == {valid_specialists[i] : i \in 1..Len(valid_specialists)}

\* Names the classification call can answer with: the registered ones and
\* one that is not registered (an empty or misspelt name).
ProposedNames == Registry \cup {"unknown_specialist"}

Proposals == UNION {[1..k -> ProposedNames] : k \in 1..MaxProposed}

\* Outcomes of the classification call: it raises, or it returns a list.
LlmRoutings ==
    {[ok |-> FALSE, names |-> <<>>]} \cup {[ok |-> TRUE, names |-> p] : p \in Proposals}

Histories == {<<>>, <<[role |-> "user", content |-> <<"nl">>]>>}

\* --------------------------------------------------------------- helpers
Prefix(s, n) == SubSeq(s, 1, IF Len(s) < n THEN Len(s) ELSE n)

\* A remove that leaves the list as it is.
RemoveNone(s, x) == s

RECURSIVE RemoveFirst(_, _)
\* list.remove(x): drops the first occurrence of x.
RemoveFirst(s, x) ==
    IF s = <<>> THEN <<>>
    ELSE IF Head(s) = x THEN Tail(s)
    ELSE <<Head(s)>> \o RemoveFirst(Tail(s), x)

\* ---------------------------------------------------------------- router
\* An _analyze_query that keeps every proposed name.
AnalyzeQueryUnfiltered(llm) ==
    IF ~llm.ok THEN [raised |-> TRUE, value |-> <<>>]
    ELSE [raised |-> FALSE,
          value  |-> IF llm.names = <<>> THEN <<"sql_specialist">> ELSE llm.names]

\* An _analyze_query without its default: an empty filtered list is returned.
AnalyzeQueryNoDefault(llm) ==
    IF ~llm.ok THEN [raised |-> TRUE, value |-> <<>>]
    ELSE [raised |-> FALSE, value |-> SelectSeq(llm.names, LAMBDA s : s \in Registry)]

\* OrchestratorAgent._analyze_query: split, keep the registered names,
\* default to sql_specialist when none is left; raises when the call does.
AnalyzeQuery(llm) ==
    IF ~llm.ok THEN [raised |-> TRUE, value |-> <<>>]
    ELSE LET specialists == SelectSeq(llm.names, LAMBDA s : s \in Registry)
         IN  [raised |-> FALSE,
              value  |-> IF specialists = <<>> THEN <<"sql_specialist">> ELSE specialists]

\* A route whose except branch returns no specialist.
RouteNoFallback(llm) ==
    LET r == AnalyzeQuery(llm)
    IN  IF r.raised THEN <<>> ELSE r.value

\* OrchestratorAgent.route: any exception becomes the default routing.
Route(llm) ==
    LET r == AnalyzeQuery(llm)
    IN  IF r.raised THEN <<"sql_specialist">> ELSE r.value

\* ----------------------------------------------------------------- tools
\* Each tool catches its own exceptions and returns the error as text.
OracleRun(toolOk) == IF toolOk THEN <<"raw">> ELSE <<"lit", "exc">>

SearchRun(toolOk) == IF toolOk THEN <<"raw">> ELSE <<"lit", "exc">>

PythonRun(toolOk) == IF toolOk THEN <<"raw">> ELSE <<"lit", "exc", "trace">>

\* -------------------------------------------------------------- handlers
\* What the collaborators of one handler invocation do:
\*   gen  the code/diagram generation call returns (FALSE: it raises)
\*   tool the tool's own work succeeds (FALSE: it fails inside the tool)
\*   sum  the summarising/describing call returns (FALSE: it raises)
Outcome(g, t, s) == [gen |-> g, tool |-> t, sum |-> s]

Outcomes(c) ==
    CASE c = "sql_specialist"     -> {Outcome(TRUE, t, s) : t \in BOOLEAN, s \in BOOLEAN}
      [] c = "search_specialist"  -> {Outcome(TRUE, t, s) : t \in BOOLEAN, s \in BOOLEAN}
      [] c = "python_specialist"  -> {Outcome(FALSE, TRUE, TRUE)}
                                        \cup {Outcome(TRUE, t, s) : t \in BOOLEAN, s \in BOOLEAN}
      [] c = "diagram_specialist" -> {Outcome(FALSE, TRUE, TRUE)}
                                        \cup {Outcome(TRUE, TRUE, s) : s \in BOOLEAN}

Summary(sp, text, tool, err, code) ==
    [specialist |-> sp, summary |-> text, tool_used |-> tool, error |-> err, has_code |-> code]

\* _summarize_database_result / _summarize_search_result /
\* _summarize_python_result: the LLM's text, or on any exception the
\* truncated raw result between two fixed phrases.
SummarizeResult(raw, sumOk) ==
    IF sumOk THEN <<"nl">>
    ELSE <<"lit">> \o Prefix(raw, FallbackChars) \o <<"lit">>

\* _generate_mermaid_diagram: fences stripped, then wrapped in one fence.
GenerateMermaidDiagram == <<"fence", "code", "fence">>

\* _generate_diagram_description: the LLM's text, or a fixed phrase.
GenerateDiagramDescription(sumOk) == IF sumOk THEN <<"nl">> ELSE <<"lit">>

\* The try-body of each execute(): raised, or the summary text.
SqlBody(o) ==
    [raised |-> FALSE, summary |-> SummarizeResult(OracleRun(o.tool), o.sum)]

SearchBody(o) ==
    [raised |-> FALSE, summary |-> SummarizeResult(SearchRun(o.tool), o.sum)]

PythonBody(o) ==
    IF ~o.gen THEN [raised |-> TRUE, summary |-> <<>>]
    ELSE [raised |-> FALSE, summary |-> SummarizeResult(PythonRun(o.tool), o.sum)]

DiagramBody(o) ==
    IF ~o.gen THEN [raised |-> TRUE, summary |-> <<>>]
    ELSE [raised |-> FALSE,
          summary |-> GenerateDiagramDescription(o.sum) \o <<"lit">> \o GenerateMermaidDiagram]

\* The except branch of each execute(): a fixed phrase followed by str(e).
ErrorMsg == <<"lit", "exc">>

SqlExecute(o) ==
    LET b == SqlBody(o)
    IN  [raised |-> FALSE,
         specialist_summaries |->
            IF b.raised
            THEN <<Summary("database", ErrorMsg, "oracle_database_query", TRUE, FALSE)>>
            ELSE <<Summary("database", b.summary, "oracle_database_query", FALSE, FALSE)>>]

SearchExecute(o) ==
    LET b == SearchBody(o)
    IN  [raised |-> FALSE,
         specialist_summaries |->
            IF b.raised
            THEN <<Summary("internet_search", ErrorMsg, "internet_search", TRUE, FALSE)>>
            ELSE <<Summary("internet_search", b.summary, "internet_search", FALSE, FALSE)>>]

PythonExecute(o) ==
    LET b == PythonBody(o)
    IN  [raised |-> FALSE,
         specialist_summaries |->
            IF b.raised
            THEN <<Summary("python_analysis", ErrorMsg, "python_executor", TRUE, FALSE)>>
            ELSE <<Summary("python_analysis", b.summary, "python_executor", FALSE, FALSE)>>]

DiagramExecute(o) ==
    LET b == DiagramBody(o)
    IN  [raised |-> FALSE,
         specialist_summaries |->
            IF b.raised
            THEN <<Summary("diagram_visualization", ErrorMsg, "mermaid_diagram", TRUE, FALSE)>>
            ELSE <<Summary("diagram_visualization", b.summary, "mermaid_diagram", FALSE, TRUE)>>]

\* The label each handler writes in its result.
SpecialistLabel(c) ==
    CASE c = "sql_specialist"     -> "database"
      [] c = "search_specialist"  -> "internet_search"
      [] c = "python_specialist"  -> "python_analysis"
      [] c = "diagram_specialist" -> "diagram_visualization"

\* The name each handler reports as the tool it used.
ToolName(c) ==
    CASE c = "sql_specialist"     -> "oracle_database_query"
      [] c = "search_specialist"  -> "internet_search"
      [] c = "python_specialist"  -> "python_executor"
      [] c = "diagram_specialist" -> "mermaid_diagram"

Body(c, o) ==
    CASE c = "sql_specialist"     -> SqlBody(o)
      [] c = "search_specialist"  -> SearchBody(o)
      [] c = "python_specialist"  -> PythonBody(o)
      [] c = "diagram_specialist" -> DiagramBody(o)

\* Handlers whose except branch is missing: the exception leaves execute().
ExecuteUncaught(c, o) ==
    LET b == Body(c, o)
    IN  IF b.raised THEN [raised |-> TRUE, specialist_summaries |-> <<>>]
        ELSE [raised |-> FALSE,
              specialist_summaries |->
                 <<Summary(SpecialistLabel(c), b.summary, ToolName(c), FALSE,
                           c = "diagram_specialist")>>]

\* self.<c>.execute(query, state)
Execute(c, o) ==
    CASE c = "sql_specialist"     -> SqlExecute(o)
      [] c = "search_specialist"  -> SearchExecute(o)
      [] c = "python_specialist"  -> PythonExecute(o)
      [] c = "diagram_specialist" -> DiagramExecute(o)

\* ------------------------------------------------------------ synthesizer
\* The response text: which stage wrote it and the summaries it was built from.
Response(k, src) == [kind |-> k, sources |-> src]

\* A tools_used that lists only the tools of the results without error flag.
ToolsUsedOkOnly(summaries) ==
    LET ok == SelectSeq(summaries, LAMBDA s : ~s.error)
    IN  [i \in 1..Len(ok) |-> ok[i].tool_used]

\* tools_used = [s.get("tool_used") for s in summaries if "tool_used" in s]
\* (every handler result carries tool_used).
ToolsUsed(summaries) == [i \in 1..Len(summaries) |-> summaries[i].tool_used]

\* A has_errors computed with all() in place of any().
HasErrorsAll(summaries) == \A i \in 1..Len(summaries) : summaries[i].error

\* has_errors = any(s.get("error", False) for s in summaries)
HasErrors(summaries) == \E i \in 1..Len(summaries) : summaries[i].error

\* SynthesizerAgent._generate_response: one LLM call over the formatted
\* summaries; raises when the call does.
GenerateResponse(summaries, genOk) ==
    IF ~genOk THEN [raised |-> TRUE, value |-> Response("none", <<>>)]
    ELSE [raised |-> FALSE,
          value  |-> Response("composed",
                              [i \in 1..Len(summaries) |-> summaries[i].summary])]

\* A synthesize without its except branch: the exception leaves it.
SynthesizeUncaught(state, genOk) ==
    LET summaries == state.specialist_summaries
        g == GenerateResponse(summaries, genOk)
    IN  IF g.raised
        THEN [raised |-> TRUE, final_response |-> Response("none", <<>>),
              tools_used |-> <<>>, has_errors |-> FALSE]
        ELSE [raised |-> FALSE, final_response |-> g.value,
              tools_used |-> ToolsUsed(summaries), has_errors |-> HasErrors(summaries)]

\* SynthesizerAgent.synthesize: its except branch returns the error text as
\* the response, no tools and has_errors = True.
Synthesize(state, genOk) ==
    LET summaries == state.specialist_summaries
        g == GenerateResponse(summaries, genOk)
    IN  IF g.raised
        THEN [raised |-> FALSE, final_response |-> Response("synthesis_error", <<>>),
              tools_used |-> <<>>, has_errors |-> TRUE]
        ELSE [raised |-> FALSE, final_response |-> g.value,
              tools_used |-> ToolsUsed(summaries), has_errors |-> HasErrors(summaries)]

\* ------------------------------------------------------------ graph nodes
\* initial_state of chat and chat_stream.
InitialState(history) ==
    [user_query |-> <<"nl">>, chat_history |-> history, routing_decision |-> <<>>,
     specialist_summaries |-> <<>>, final_response |-> Response("empty", <<>>),
     tools_used |-> <<>>, has_errors |-> FALSE]

\* An orchestrator node whose route lets the classifier's exception through.
OrchestratorNodeUncaught(state, llm) ==
    IF ~llm.ok THEN [raised |-> TRUE, state |-> state]
    ELSE [raised |-> FALSE, state |-> [state EXCEPT !.routing_decision = Route(llm)]]

\* _orchestrator_node: the routing decision is what route returns.
OrchestratorNode(state, llm) ==
    [raised |-> FALSE, state |-> [state EXCEPT !.routing_decision = Route(llm)]]

\* A specialist node that does not take its name off the queue.
SpecialistNodeKeepsQueue(c, state, o) ==
    LET result == Execute(c, o)
    IN  IF result.raised THEN [raised |-> TRUE, state |-> state]
        ELSE [raised |-> FALSE,
              state  |-> [state EXCEPT
                            !.specialist_summaries = @ \o result.specialist_summaries]]

\* _sql_specialist_node and its three siblings: run the handler, remove the
\* first occurrence of the node's own name from the queue, extend the
\* summaries with the handler's.
SpecialistNode(c, state, o) ==
    LET result == Execute(c, o)
    IN  IF result.raised THEN [raised |-> TRUE, state |-> state]
        ELSE [raised |-> FALSE,
              state  |-> [state EXCEPT
                            !.routing_decision = RemoveFirst(@, c),
                            !.specialist_summaries = @ \o result.specialist_summaries]]

SynthesizerNode(state, genOk) ==
    LET result == Synthesize(state, genOk)
    IN  IF result.raised THEN [raised |-> TRUE, state |-> state]
        ELSE [raised |-> FALSE,
              state  |-> [state EXCEPT !.final_response = result.final_response,
                                       !.tools_used = result.tools_used,
                                       !.has_errors = result.has_errors]]

\* _route_to_specialists and _route_to_next_specialist: head of the queue,
\* or the synthesizer when it is empty.
RouteToSpecialists(state) ==
    IF state.routing_decision = <<>> THEN "synthesizer" ELSE state.routing_decision[1]

\* A _route_to_next_specialist that answers with the default specialist when
\* the queue is empty.
RouteToNextSpecialistDefault(state) ==
    IF state.routing_decision = <<>> THEN "sql_specialist" ELSE state.routing_decision[1]

RouteToNextSpecialist(state) ==
    IF state.routing_decision = <<>> \/ Len(state.routing_decision) = 0
    THEN "synthesizer" ELSE state.routing_decision[1]

\* An edge map in which every specialist may also route to itself.
EdgesWithSelf(n) == Registry \cup {"synthesizer"}

\* The targets of the conditional edges of _build_graph: a specialist has
\* no edge to itself.
Edges(n) ==
    IF n = "orchestrator" THEN Registry \cup {"synthesizer"}
    ELSE (Registry \ {n}) \cup {"synthesizer"}

\* A routing function's answer is looked up in the node's edge map; an
\* answer that is no key of the map raises out of workflow.invoke.
Branch(n, target) == IF target \in Edges(n) THEN target ELSE "raised"

\* The graph writes a node's returned state into its channels: plain keys
\* are overwritten; specialist_summaries is Annotated with operator.add, so
\* the returned list is added to the channel's list.  The nodes extend the
\* list they were handed in place: when the graph hands out the channel's
\* own list (al), the channel already holds the extended list.
ApplyUpdate(chan, out, al) ==
    [out EXCEPT !.specialist_summaries =
        (IF al THEN out.specialist_summaries ELSE chan.specialist_summaries)
            \o out.specialist_summaries]

\* ------------------------------------------------------------------ state
VARIABLES
    mode,      \* "stream": chat_stream; "graph": chat
    aliased,   \* graph only: nodes are handed the channel's own list
    pc,        \* position of the run
    node,      \* graph only: the node to run next
    st,        \* the AgentState (stream: current_state; graph: the channels)
    R,         \* the routing decision the orchestrator returned
    idx,       \* stream only: position of the for loop in R
    events,    \* stream only: the events yielded so far
    final,     \* what the caller receives: complete's payload / chat's dict
    log,       \* the handler invocations so far, in order
    synthIn,   \* what the synthesizer was called with
    classified,\* what the classification call did in this run
    runs,      \* the runs of the two-run specifications, each a record
    service,   \* routers/ai.py: the module's AIService and the requests so far
    db,        \* db.py: the module's connection pool and its users
    hist       \* a chat history and what _format_chat_history made of it

vars == <<mode, aliased, pc, node, st, R, idx, events, final, log, synthIn, classified,
          runs, service, db, hist>>

\* The three module-level parts of the state, before anything used them.
\* instance: 0 is None, otherwise the identity of the stored AIService;
\* attempts/constructed count the AIService() calls made / returned;
\* served lists the instance each successful get_ai_service call returned.
NoService == [instance |-> 0, attempts |-> 0, constructed |-> 0, requests |-> 0,
              served |-> <<>>]

NoDb == [pool |-> FALSE, busy |-> 0, close_error |-> FALSE, users |-> <<>>]

NoHist == [chat_history |-> <<>>, called |-> FALSE, formatted |-> <<>>]

ModuleIdle == service = NoService /\ db = NoDb /\ hist = NoHist

Event(t, s) == [type |-> t, specialist |-> s]

NoFinal == [kind |-> "none", response |-> Response("empty", <<>>),
            tools_used |-> <<>>, has_errors |-> FALSE]

NoSynth == [entered |-> FALSE, genOk |-> TRUE, summaries |-> <<>>, queue |-> <<>>]

\* The classification call has not been made yet / what it did.
NoClassification == [made |-> FALSE, ok |-> TRUE, names |-> <<>>, calls |-> 0]

\* A route that calls the classifier a second time when the first call raised.
ClassifierCallsRetry(llm) == IF llm.ok THEN 1 ELSE 2

\* How often route calls the classifier: _analyze_query once, and its except
\* branch returns the default without another call.
ClassifierCalls(llm) == 1

Classification(llm) ==
    [made |-> TRUE, ok |-> llm.ok, names |-> llm.names, calls |-> ClassifierCalls(llm)]

Init ==
    /\ \E h \in Histories : st = InitialState(h)
    /\ \/ mode = "stream" /\ aliased = FALSE /\ pc = "s_start"
       \/ mode = "graph" /\ aliased \in BOOLEAN /\ pc = "g_start"
    /\ node = "-"
    /\ R = <<>>
    /\ idx = 0
    /\ events = <<>>
    /\ final = NoFinal
    /\ log = <<>>
    /\ synthIn = NoSynth
    /\ classified = NoClassification
    /\ runs = <<>>
    /\ ModuleIdle

\* ------------------------------------------------- chat_stream (streaming)
\* One action per stretch of code between two yields.

\* The except branch of chat_stream: one error event.
ErrorResult ==
    [kind |-> "error_event", response |-> Response("apology", <<>>),
     tools_used |-> <<>>, has_errors |-> FALSE]

\* The payload of the complete event: final_state's three result fields.
CompleteResult(state) ==
    [kind |-> "result", response |-> state.final_response,
     tools_used |-> state.tools_used, has_errors |-> state.has_errors]

\* A chat_stream whose except branch also runs after complete was yielded.
FinalEventsBoth(n) ==
    IF n.raised THEN <<Event("error", "-")>>
    ELSE <<Event("complete", "-"), Event("error", "-")>>

\* What chat_stream yields once the synthesizer node has been called.
FinalEvents(n) ==
    IF n.raised THEN <<Event("error", "-")>> ELSE <<Event("complete", "-")>>

\* yield thinking ("Analizando tu pregunta...")
StreamThinking ==
    /\ mode = "stream" /\ pc = "s_start"
    /\ events' = Append(events, Event("thinking", "-"))
    /\ pc' = "s_prepare"
    /\ UNCHANGED <<service, db, hist, runs, classified, mode, aliased, node, st, R, idx, final, log, synthIn>>

\* sleep, build the history and the initial state,
\* yield thinking ("Determinando qué especialistas...")
StreamPrepare ==
    /\ mode = "stream" /\ pc = "s_prepare"
    /\ events' = Append(events, Event("thinking", "-"))
    /\ pc' = "s_orchestrate"
    /\ UNCHANGED <<service, db, hist, runs, classified, mode, aliased, node, st, R, idx, final, log, synthIn>>

\* orchestrator node, yield routing
StreamRouting ==
    /\ mode = "stream" /\ pc = "s_orchestrate"
    /\ \E llm \in LlmRoutings :
         /\ classified' = Classification(llm)
         /\ LET n == OrchestratorNode(st, llm)
            IN  IF n.raised
                THEN /\ events' = Append(events, Event("error", "-"))
                     /\ final' = ErrorResult
                     /\ pc' = "s_terminal"
                     /\ UNCHANGED <<st, R, idx>>
                ELSE /\ st' = n.state
                     /\ R' = n.state.routing_decision
                     /\ idx' = 1
                     /\ events' = Append(events, Event("routing", "-"))
                     /\ pc' = "s_loop"
                     /\ UNCHANGED final
    /\ UNCHANGED <<service, db, hist, runs, mode, aliased, node, log, synthIn>>

\* sleep, next iteration of "for specialist in routing": yield specialist_start
StreamSpecialistStart ==
    /\ mode = "stream" /\ pc = "s_loop" /\ idx <= Len(R)
    /\ events' = Append(events, Event("specialist_start", R[idx]))
    /\ pc' = "s_dispatched"
    /\ UNCHANGED <<service, db, hist, runs, classified, mode, aliased, node, st, R, idx, final, log, synthIn>>

\* A loop body that does not yield specialist_complete.
StreamSpecialistCompleteSilent ==
    /\ mode = "stream" /\ pc = "s_dispatched"
    /\ \E o \in Outcomes(R[idx]) :
         LET n == SpecialistNode(R[idx], st, o)
         IN  /\ st' = n.state
             /\ log' = Append(log, [cap |-> R[idx], o |-> o,
                                    results |-> Execute(R[idx], o).specialist_summaries])
             /\ idx' = idx + 1
             /\ pc' = "s_loop"
    /\ UNCHANGED <<service, db, hist, runs, classified, mode, aliased, node, R, synthIn, events, final>>

\* the specialist's node, yield specialist_complete
StreamSpecialistComplete ==
    /\ mode = "stream" /\ pc = "s_dispatched"
    /\ \E o \in Outcomes(R[idx]) :
         LET n == SpecialistNode(R[idx], st, o)
         IN  IF n.raised
             THEN /\ events' = Append(events, Event("error", "-"))
                  /\ final' = ErrorResult
                  /\ pc' = "s_terminal"
                  /\ log' = Append(log, [cap |-> R[idx], o |-> o, results |-> <<>>])
                  /\ UNCHANGED <<st, idx>>
             ELSE /\ st' = n.state
                  /\ log' = Append(log, [cap |-> R[idx], o |-> o,
                                         results |-> Execute(R[idx], o).specialist_summaries])
                  /\ events' = Append(events, Event("specialist_complete", R[idx]))
                  /\ idx' = idx + 1
                  /\ pc' = "s_loop"
                  /\ UNCHANGED final
    /\ UNCHANGED <<service, db, hist, runs, classified, mode, aliased, node, R, synthIn>>

\* the loop is over: yield synthesizing
StreamSynthesizing ==
    /\ mode = "stream" /\ pc = "s_loop" /\ idx > Len(R)
    /\ events' = Append(events, Event("synthesizing", "-"))
    /\ pc' = "s_synthesize"
    /\ UNCHANGED <<service, db, hist, runs, classified, mode, aliased, node, st, R, idx, final, log, synthIn>>

\* synthesizer node, yield complete (or, from the except branch, error)
StreamComplete ==
    /\ mode = "stream" /\ pc = "s_synthesize"
    /\ \E genOk \in BOOLEAN :
         LET n == SynthesizerNode(st, genOk)
         IN  /\ synthIn' = [entered |-> TRUE, genOk |-> genOk,
                            summaries |-> st.specialist_summaries,
                            queue |-> st.routing_decision]
             /\ st' = n.state
             /\ events' = events \o FinalEvents(n)
             /\ final' = IF n.raised THEN ErrorResult ELSE CompleteResult(n.state)
    /\ pc' = "s_terminal"
    /\ UNCHANGED <<service, db, hist, runs, classified, mode, aliased, node, R, idx, log>>

\* the generator is resumed after its last yield and returns
StreamEnd ==
    /\ mode = "stream" /\ pc = "s_terminal"
    /\ pc' = "done"
    /\ UNCHANGED <<service, db, hist, runs, classified, mode, aliased, node, st, R, idx, events, final, log, synthIn>>

\* --------------------------------------------- chat (compiled LangGraph)
\* One action per node of the graph, with the write of its update and the
\* conditional edge that follows it.

\* chat builds initial_state and calls workflow.invoke: entry point orchestrator
ChatStart ==
    /\ mode = "graph" /\ pc = "g_start"
    /\ node' = "orchestrator"
    /\ pc' = "g_run"
    /\ UNCHANGED <<service, db, hist, runs, classified, mode, aliased, st, R, idx, events, final, log, synthIn>>

GraphOrchestrator ==
    /\ mode = "graph" /\ pc = "g_run" /\ node = "orchestrator"
    /\ \E llm \in LlmRoutings :
         /\ classified' = Classification(llm)
         /\ LET n == OrchestratorNode(st, llm)
                new == ApplyUpdate(st, n.state, aliased)
            IN  IF n.raised
                THEN /\ node' = "raised"
                     /\ UNCHANGED <<st, R>>
                ELSE /\ st' = new
                     /\ R' = n.state.routing_decision
                     /\ node' = Branch("orchestrator", RouteToSpecialists(new))
    /\ UNCHANGED <<service, db, hist, runs, mode, aliased, pc, idx, events, final, log, synthIn>>

GraphSpecialist ==
    /\ mode = "graph" /\ pc = "g_run" /\ node \in Registry
    /\ \E o \in Outcomes(node) :
         LET n == SpecialistNode(node, st, o)
             new == ApplyUpdate(st, n.state, aliased)
         IN  IF n.raised
             THEN /\ node' = "raised"
                  /\ log' = Append(log, [cap |-> node, o |-> o, results |-> <<>>])
                  /\ UNCHANGED st
             ELSE /\ st' = new
                  /\ log' = Append(log, [cap |-> node, o |-> o,
                                         results |-> Execute(node, o).specialist_summaries])
                  /\ node' = Branch(node, RouteToNextSpecialist(new))
    /\ UNCHANGED <<service, db, hist, runs, classified, mode, aliased, pc, R, idx, events, final, synthIn>>

GraphSynthesizer ==
    /\ mode = "graph" /\ pc = "g_run" /\ node = "synthesizer"
    /\ \E genOk \in BOOLEAN :
         LET n == SynthesizerNode(st, genOk)
         IN  /\ synthIn' = [entered |-> TRUE, genOk |-> genOk,
                            summaries |-> st.specialist_summaries,
                            queue |-> st.routing_decision]
             /\ IF n.raised
                THEN node' = "raised" /\ UNCHANGED st
                ELSE st' = ApplyUpdate(st, n.state, aliased) /\ node' = "END"
    /\ UNCHANGED <<service, db, hist, runs, classified, mode, aliased, pc, R, idx, events, final, log>>

\* workflow.invoke returned: chat extracts the result
ChatReturn ==
    /\ mode = "graph" /\ pc = "g_run" /\ node = "END"
    /\ final' = CompleteResult(st)
    /\ pc' = "done"
    /\ UNCHANGED <<service, db, hist, runs, classified, mode, aliased, node, st, R, idx, events, log, synthIn>>

\* workflow.invoke raised: chat's except branch returns the error response
ChatExcept ==
    /\ mode = "graph" /\ pc = "g_run" /\ node = "raised"
    /\ final' = [kind |-> "error_result", response |-> Response("apology", <<>>),
                 tools_used |-> <<>>, has_errors |-> TRUE]
    /\ pc' = "done"
    /\ UNCHANGED <<service, db, hist, runs, classified, mode, aliased, node, st, R, idx, events, log, synthIn>>

Next ==
    \/ StreamThinking
    \/ StreamPrepare
    \/ StreamRouting
    \/ StreamSpecialistStart
    \/ StreamSpecialistComplete
    \/ StreamSynthesizing
    \/ StreamComplete
    \/ StreamEnd
    \/ ChatStart
    \/ GraphOrchestrator
    \/ GraphSpecialist
    \/ GraphSynthesizer
    \/ ChatReturn
    \/ ChatExcept

Spec == Init /\ [][Next]_vars

\* The interpreter goes on with the run as long as a step is left: every
\* external call returns, and the consumer of chat_stream keeps reading.
LiveSpec == Init /\ [][Next]_vars /\ WF_vars(Next)

\* ------------------------------------------------------- a run as a value
\* The same two entry points, written as functions from a run to the run
\* after its next step, so that one state can hold several runs.  A run is
\* a record with the fields of the single-run specification.

\* The consumer has not closed the stream.
NotClosed == [is |-> FALSE, events |-> 0, handlers |-> 0, synth |-> FALSE]

\* No HTTP response has been built for the run.
NoResponse == [status |-> 0]

NewRun(m, al, history) ==
    [mode |-> m, aliased |-> al, pc |-> IF m = "stream" THEN "s_start" ELSE "g_start",
     node |-> "-", st |-> InitialState(history), R |-> <<>>, idx |-> 0,
     events |-> <<>>, final |-> NoFinal, log |-> <<>>, synthIn |-> NoSynth,
     classified |-> NoClassification, closed |-> NotClosed, deadline |-> 0,
     http |-> NoResponse]

\* What the collaborators answer during one step.
StepInput(l, o, g) == [llm |-> l, o |-> o, genOk |-> g]

NoLlm == [ok |-> TRUE, names |-> <<>>]

\* The answers the collaborators can give at the run's next step: the
\* classification call's at the orchestrator, a handler's collaborators' at
\* a dispatch, the composer's generation call's at the synthesizer.
StepInputs(run, llms) ==
    IF run.pc = "s_orchestrate" \/ (run.pc = "g_run" /\ run.node = "orchestrator")
    THEN {StepInput(l, Outcome(TRUE, TRUE, TRUE), TRUE) : l \in llms}
    ELSE IF run.pc = "s_dispatched"
    THEN {StepInput(NoLlm, o, TRUE) : o \in Outcomes(run.R[run.idx])}
    ELSE IF run.pc = "g_run" /\ run.node \in Registry
    THEN {StepInput(NoLlm, o, TRUE) : o \in Outcomes(run.node)}
    ELSE IF run.pc = "s_synthesize" \/ (run.pc = "g_run" /\ run.node = "synthesizer")
    THEN {StepInput(NoLlm, Outcome(TRUE, TRUE, TRUE), g) : g \in BOOLEAN}
    ELSE {StepInput(NoLlm, Outcome(TRUE, TRUE, TRUE), TRUE)}

SynthInput(state, genOk) ==
    [entered |-> TRUE, genOk |-> genOk, summaries |-> state.specialist_summaries,
     queue |-> state.routing_decision]

LogEntry(c, o, n) ==
    [cap |-> c, o |-> o,
     results |-> IF n.raised THEN <<>> ELSE Execute(c, o).specialist_summaries]

\* chat_stream from one yield to the next.
StreamStep(run, in) ==
    CASE run.pc = "s_start" ->
           [run EXCEPT !.events = Append(@, Event("thinking", "-")), !.pc = "s_prepare"]
      [] run.pc = "s_prepare" ->
           [run EXCEPT !.events = Append(@, Event("thinking", "-")), !.pc = "s_orchestrate"]
      [] run.pc = "s_orchestrate" ->
           LET n == OrchestratorNode(run.st, in.llm)
           IN  IF n.raised
               THEN [run EXCEPT !.classified = Classification(in.llm),
                                !.events = Append(@, Event("error", "-")),
                                !.final = ErrorResult, !.pc = "s_terminal"]
               ELSE [run EXCEPT !.classified = Classification(in.llm),
                                !.st = n.state, !.R = n.state.routing_decision,
                                !.idx = 1,
                                !.events = Append(@, Event("routing", "-")),
                                !.pc = "s_loop"]
      [] run.pc = "s_loop" /\ run.idx <= Len(run.R) ->
           [run EXCEPT !.events = Append(@, Event("specialist_start", run.R[run.idx])),
                       !.pc = "s_dispatched"]
      [] run.pc = "s_loop" /\ run.idx > Len(run.R) ->
           [run EXCEPT !.events = Append(@, Event("synthesizing", "-")),
                       !.pc = "s_synthesize"]
      [] run.pc = "s_dispatched" ->
           LET c == run.R[run.idx]
               n == SpecialistNode(c, run.st, in.o)
           IN  IF n.raised
               THEN [run EXCEPT !.log = Append(@, LogEntry(c, in.o, n)),
                                !.events = Append(@, Event("error", "-")),
                                !.final = ErrorResult, !.pc = "s_terminal"]
               ELSE [run EXCEPT !.log = Append(@, LogEntry(c, in.o, n)),
                                !.st = n.state,
                                !.events = Append(@, Event("specialist_complete", c)),
                                !.idx = @ + 1, !.pc = "s_loop"]
      [] run.pc = "s_synthesize" ->
           LET n == SynthesizerNode(run.st, in.genOk)
           IN  [run EXCEPT !.synthIn = SynthInput(run.st, in.genOk),
                           !.st = n.state,
                           !.events = @ \o FinalEvents(n),
                           !.final = IF n.raised THEN ErrorResult
                                     ELSE CompleteResult(n.state),
                           !.pc = "s_terminal"]
      [] run.pc = "s_terminal" -> [run EXCEPT !.pc = "done"]
      [] OTHER -> run

\* chat from one node of the compiled graph to the next.
GraphStep(run, in) ==
    CASE run.pc = "g_start" -> [run EXCEPT !.node = "orchestrator", !.pc = "g_run"]
      [] run.pc = "g_run" /\ run.node = "orchestrator" ->
           LET n == OrchestratorNode(run.st, in.llm)
               new == ApplyUpdate(run.st, n.state, run.aliased)
           IN  IF n.raised
               THEN [run EXCEPT !.classified = Classification(in.llm), !.node = "raised"]
               ELSE [run EXCEPT !.classified = Classification(in.llm),
                                !.st = new, !.R = n.state.routing_decision,
                                !.node = Branch("orchestrator", RouteToSpecialists(new))]
      [] run.pc = "g_run" /\ run.node \in Registry ->
           LET n == SpecialistNode(run.node, run.st, in.o)
               new == ApplyUpdate(run.st, n.state, run.aliased)
           IN  IF n.raised
               THEN [run EXCEPT !.log = Append(@, LogEntry(run.node, in.o, n)),
                                !.node = "raised"]
               ELSE [run EXCEPT !.log = Append(@, LogEntry(run.node, in.o, n)),
                                !.st = new,
                                !.node = Branch(run.node, RouteToNextSpecialist(new))]
      [] run.pc = "g_run" /\ run.node = "synthesizer" ->
           LET n == SynthesizerNode(run.st, in.genOk)
           IN  IF n.raised
               THEN [run EXCEPT !.synthIn = SynthInput(run.st, in.genOk),
                                !.node = "raised"]
               ELSE [run EXCEPT !.synthIn = SynthInput(run.st, in.genOk),
                                !.st = ApplyUpdate(run.st, n.state, run.aliased),
                                !.node = "END"]
      [] run.pc = "g_run" /\ run.node = "END" ->
           [run EXCEPT !.final = CompleteResult(run.st), !.pc = "done"]
      [] run.pc = "g_run" /\ run.node = "raised" ->
           [run EXCEPT !.final = [kind |-> "error_result",
                                  response |-> Response("apology", <<>>),
                                  tools_used |-> <<>>, has_errors |-> TRUE],
                       !.pc = "done"]
      [] OTHER -> run

\* The variables of the single-run specification, idle in the others.
single == <<mode, aliased, pc, node, st, R, idx, events, final, log, synthIn, classified>>

Idle ==
    /\ mode = "-" /\ aliased = FALSE /\ pc = "-" /\ node = "-"
    /\ st = InitialState(<<>>) /\ R = <<>> /\ idx = 0 /\ events = <<>>
    /\ final = NoFinal /\ log = <<>> /\ synthIn = NoSynth
    /\ classified = NoClassification

\* ------------------ chat_stream and chat on the same collaborator answers
\* runs[1] is a chat_stream run.  When it has finished, chat is called with
\* the same query and history: runs[2] is that run, and its collaborators
\* answer as they answered runs[1].
PairInit ==
    /\ Idle /\ ModuleIdle
    /\ \E h \in Histories : runs = <<NewRun("stream", FALSE, h)>>

PairStream ==
    /\ runs[1].pc # "done"
    /\ \E in \in StepInputs(runs[1], LlmRoutings) :
         runs' = [runs EXCEPT ![1] = StreamStep(@, in)]
    /\ UNCHANGED <<single, service, db, hist>>

PairChat ==
    /\ Len(runs) = 1 /\ runs[1].pc = "done"
    /\ \E al \in BOOLEAN :
         runs' = Append(runs, NewRun("graph", al, runs[1].st.chat_history))
    /\ UNCHANGED <<single, service, db, hist>>

\* The answers the stream run s got, at the position the graph run g is at.
Replay(s, g) ==
    StepInput([ok |-> s.classified.ok, names |-> s.classified.names],
              IF Len(g.log) < Len(s.log) THEN s.log[Len(g.log) + 1].o
              ELSE Outcome(TRUE, TRUE, TRUE),
              s.synthIn.genOk)

PairGraph ==
    /\ Len(runs) = 2 /\ runs[2].pc # "done"
    /\ runs' = [runs EXCEPT ![2] = GraphStep(@, Replay(runs[1], runs[2]))]
    /\ UNCHANGED <<single, service, db, hist>>

PairNext ==
    \/ PairStream
    \/ PairChat
    \/ PairGraph

PairSpec == PairInit /\ [][PairNext]_vars

\* ------------------------------- two chat_stream runs on one AIService
\* The router module keeps one AIService; every request calls chat_stream
\* on it.  The event loop resumes one generator at a time and each runs,
\* without awaiting anything else, to its next yield.

\* What the classification call answers the two concurrent runs: it raises,
\* or it proposes two registered names around one that is not.
ConcurrentLlm ==
    {[ok |-> FALSE, names |-> <<>>],
     [ok |-> TRUE,
      names |-> <<"python_specialist", "unknown_specialist", "diagram_specialist">>]}

ConcurrentInit ==
    /\ Idle /\ ModuleIdle
    /\ runs = <<NewRun("stream", FALSE, <<>>),
                NewRun("stream", FALSE, <<[role |-> "user", content |-> <<"nl">>]>>)>>

\* A state kept on the shared service object: what one run writes, the
\* other reads.
StoreShared(rs, r, new) ==
    [k \in DOMAIN rs |-> IF k = r THEN new ELSE [rs[k] EXCEPT !.st = new.st]]

\* current_state, routing and the loop position are locals of the
\* generator: a step of run r writes run r only.
Store(rs, r, new) == [rs EXCEPT ![r] = new]

\* A generator that catches the close and yields its error event.
CloseCaught(run) ==
    [run EXCEPT !.pc = "closed",
                !.closed = [is |-> TRUE, events |-> Len(run.events),
                            handlers |-> Len(run.log), synth |-> run.synthIn.entered],
                !.events = Append(@, Event("error", "-")),
                !.final = ErrorResult]

\* The generator is closed at the yield it is suspended at: GeneratorExit
\* (or the task's CancelledError) is no Exception, so the except branch does
\* not run and the generator ends there.
Close(run) ==
    [run EXCEPT !.pc = "closed",
                !.closed = [is |-> TRUE, events |-> Len(run.events),
                            handlers |-> Len(run.log), synth |-> run.synthIn.entered]]

\* The consumer asks run r for its next event.
Resume(r) ==
    /\ runs[r].pc \notin {"done", "closed"}
    /\ \E in \in StepInputs(runs[r], ConcurrentLlm) :
         runs' = Store(runs, r, StreamStep(runs[r], in))
    /\ UNCHANGED <<single, service, db, hist>>

\* The consumer of run r stops reading: the response's generator is closed.
ConsumerStops(r) ==
    /\ runs[r].pc \in {"s_prepare", "s_orchestrate", "s_loop", "s_dispatched",
                       "s_synthesize", "s_terminal"}
    /\ runs' = Store(runs, r, Close(runs[r]))
    /\ UNCHANGED <<single, service, db, hist>>

\* Time passes: the deadline of run r falls in the handler call that the
\* next step of r makes.  No code of chat_stream reads a clock.
DeadlinePasses(r) ==
    /\ runs[r].pc = "s_dispatched" /\ runs[r].deadline = 0
    /\ runs' = Store(runs, r, [runs[r] EXCEPT !.deadline = runs[r].idx])
    /\ UNCHANGED <<single, service, db, hist>>

ConcurrentNext ==
    \/ \E r \in DOMAIN runs : Resume(r)
    \/ \E r \in DOMAIN runs : ConsumerStops(r)
    \/ \E r \in DOMAIN runs : DeadlinePasses(r)

ConcurrentSpec == ConcurrentInit /\ [][ConcurrentNext]_vars

\* ------------------------------------------ the endpoints of routers/ai.py
\* /ai/chat and /ai/analyze: get_ai_service, AIService.chat (analyze calls
\* chat without history), then the response model.  The endpoints are
\* coroutines that await nothing: one request is handled at a time.

\* How AIService() can end: it returns, or it raises ValueError (missing
\* configuration) or another exception.
Constructions == {"ok", "ValueError", "Exception"}

\* A get_ai_service that does not keep what it constructed.
GetAiServiceNoStore(svc, how) ==
    IF how = "ok"
    THEN [raised |-> "no", value |-> svc.constructed + 1,
          service |-> [svc EXCEPT !.attempts = @ + 1, !.constructed = @ + 1]]
    ELSE [raised |-> how, value |-> 0, service |-> [svc EXCEPT !.attempts = @ + 1]]

\* get_ai_service: construct when the module variable is None, store the
\* new instance, return the stored one.
GetAiService(svc, how) ==
    IF svc.instance = 0
    THEN IF how = "ok"
         THEN [raised |-> "no", value |-> svc.constructed + 1,
               service |-> [svc EXCEPT !.attempts = @ + 1, !.constructed = @ + 1,
                                       !.instance = svc.constructed + 1]]
         ELSE [raised |-> how, value |-> 0, service |-> [svc EXCEPT !.attempts = @ + 1]]
    ELSE [raised |-> "no", value |-> svc.instance, service |-> svc]

\* The HTTPException of the endpoints' except branches.
HttpError(how) == [status |-> IF how = "ValueError" THEN 503 ELSE 500]

\* A response model filled with one step per tool.
ChatResponseWithSteps(result) ==
    [status |-> 200,
     body   |-> [response |-> result.response, tool_calls |-> result.tools_used,
                 intermediate_steps |-> result.tools_used]]

\* AIChatResponse(response=..., tool_calls=result.get("tools_used", []),
\* intermediate_steps=[]); AIAnalysisResponse is filled the same way.
ChatResponse(result) ==
    [status |-> 200,
     body   |-> [response |-> result.response, tool_calls |-> result.tools_used,
                 intermediate_steps |-> <<>>]]

EndpointInit ==
    /\ Idle /\ db = NoDb /\ hist = NoHist
    /\ service = NoService
    /\ runs = <<>>

\* A request arrives: get_ai_service, then chat is called (or the endpoint
\* answers with the HTTP error of its except branch).
EndpointRequest ==
    /\ runs = <<>> /\ service.requests < MaxRequests
    /\ \E ep \in {"chat", "analyze"}, how \in Constructions, h \in Histories,
          al \in BOOLEAN :
         LET g == GetAiService(service, how)
             run == NewRun("graph", al, IF ep = "analyze" THEN <<>> ELSE h)
         IN  /\ service' = [g.service EXCEPT
                               !.requests = @ + 1,
                               !.served = IF g.raised = "no" THEN Append(@, g.value)
                                          ELSE @]
             /\ runs' = IF g.raised = "no" THEN <<run>>
                        ELSE <<[run EXCEPT !.pc = "responded",
                                           !.http = HttpError(g.raised)]>>
    /\ UNCHANGED <<single, db, hist>>

\* ai_service.chat runs the graph.
EndpointRun ==
    /\ runs # <<>> /\ runs[1].pc \notin {"done", "responded"}
    /\ \E in \in StepInputs(runs[1], ConcurrentLlm) :
         runs' = <<GraphStep(runs[1], in)>>
    /\ UNCHANGED <<single, service, db, hist>>

\* chat returned its dict: the endpoint builds the response model.
EndpointRespond ==
    /\ runs # <<>> /\ runs[1].pc = "done"
    /\ runs' = <<[runs[1] EXCEPT !.pc = "responded",
                                 !.http = ChatResponse(runs[1].final)]>>
    /\ UNCHANGED <<single, service, db, hist>>

\* The response has been sent.
EndpointDone ==
    /\ runs # <<>> /\ runs[1].pc = "responded"
    /\ runs' = <<>>
    /\ UNCHANGED <<single, service, db, hist>>

EndpointNext ==
    \/ EndpointRequest
    \/ EndpointRun
    \/ EndpointRespond
    \/ EndpointDone

EndpointSpec == EndpointInit /\ [][EndpointNext]_vars

\* ------------------------------------ SynthesizerAgent._format_chat_history
\* A message is its role and its content; the content is which message of
\* the conversation it is and how many characters it has.
Message(r, i, n) == [role |-> r, content |-> [id |-> i, chars |-> n]]

\* The roles and lengths a message of the request can have: the two roles
\* the schema describes and one it does not exclude; assistant contents at
\* and just over the truncation length.
MessageKinds ==
    {[role |-> "user", chars |-> AssistantChars + 1],
     [role |-> "assistant", chars |-> AssistantChars],
     [role |-> "assistant", chars |-> AssistantChars + 1],
     [role |-> "system", chars |-> 1]}

\* The chat_history of a request with n messages of the kinds k.
ChatHistory(n, k) == [i \in 1..n |-> Message(k[i].role, i, k[i].chars)]

\* One line of the formatted history: who speaks, which message, how many
\* of its characters are shown and whether "..." follows.
Line(sp, msg, shown, dots) == [speaker |-> sp, id |-> msg.content.id, chars |-> shown,
                               ellipsis |-> dots]

HeaderLine == [speaker |-> "header", id |-> 0, chars |-> 0, ellipsis |-> FALSE]

RECURSIVE FormatMessages(_)
\* The for loop: a line per user message, a line per assistant message cut
\* to 200 characters, nothing for any other role.
FormatMessages(msgs) ==
    IF msgs = <<>> THEN <<>>
    ELSE LET msg == Head(msgs)
             n == msg.content.chars
             line == IF msg.role = "user" THEN <<Line("Usuario", msg, n, FALSE)>>
                     ELSE IF msg.role = "assistant"
                     THEN IF n > AssistantChars
                          THEN <<Line("Brain", msg, AssistantChars, TRUE)>>
                          ELSE <<Line("Brain", msg, n, FALSE)>>
                     ELSE <<>>
         IN  line \o FormatMessages(Tail(msgs))

\* A _format_chat_history that keeps the first six messages.
FormatChatHistoryOldest(chat_history) ==
    IF chat_history = <<>> THEN <<>>
    ELSE <<HeaderLine>> \o FormatMessages(Prefix(chat_history, HistoryWindow))

\* _format_chat_history: "" for no history, otherwise the header and the
\* lines of chat_history[-6:] (of the whole history when it has at most 6).
FormatChatHistory(chat_history) ==
    IF chat_history = <<>> THEN <<>>
    ELSE LET recent_history ==
                 IF Len(chat_history) > HistoryWindow
                 THEN SubSeq(chat_history, Len(chat_history) - HistoryWindow + 1,
                             Len(chat_history))
                 ELSE chat_history
         IN  <<HeaderLine>> \o FormatMessages(recent_history)

HistoryInit ==
    /\ Idle /\ service = NoService /\ db = NoDb /\ runs = <<>>
    /\ \E n \in 0..MaxHistory : \E k \in [1..n -> MessageKinds] :
         hist = [chat_history |-> ChatHistory(n, k), called |-> FALSE, formatted |-> <<>>]

\* _generate_response formats the history of its state.
FormatHistory ==
    /\ ~hist.called
    /\ hist' = [hist EXCEPT !.called = TRUE,
                            !.formatted = FormatChatHistory(hist.chat_history)]
    /\ UNCHANGED <<single, runs, service, db>>

HistoryNext == FormatHistory

HistorySpec == HistoryInit /\ [][HistoryNext]_vars

\* ------------------------------------------------- db.py: get_connection

\* A user of get_connection that is not inside a with-block.
NoUse == [phase |-> "out", acquired |-> FALSE, release_error |-> FALSE, outcome |-> "none"]

\* The ways the body of a with-block ends.
BodyExits == {"normal", "oracledb.Error", "Exception"}

\* An exit that gives the connection back only when the body ended normally.
ReleaseOnNormalExit(busy, how) == IF how = "normal" THEN busy - 1 ELSE busy

\* The finally clause of get_connection: connection.close() hands the
\* acquired connection back on every exit; an oracledb.Error it raises is
\* logged and dropped.
ReleaseOnExit(busy, how) == busy - 1

\* The state before the application's lifespan hook has run: no pool.
PoolInit ==
    /\ Idle /\ service = NoService /\ hist = NoHist /\ runs = <<>>
    /\ db = [NoDb EXCEPT !.users = [u \in 1..MaxUsers |-> NoUse]]

\* initialize_connection_pool: an invalid configuration returns without a
\* pool, otherwise create_pool's result is stored.
InitializePool ==
    /\ ~db.pool
    /\ \E valid \in BOOLEAN : db' = [db EXCEPT !.pool = valid, !.close_error = FALSE]
    /\ UNCHANGED <<single, service, hist, runs>>

\* close_connection_pool: nothing without a pool; pool.close() raises while
\* connections are checked out and the global keeps the pool.
ClosePool ==
    /\ db.pool
    /\ db' = IF db.busy > 0 THEN [db EXCEPT !.close_error = TRUE]
             ELSE [db EXCEPT !.pool = FALSE, !.close_error = FALSE]
    /\ UNCHANGED <<single, service, hist, runs>>

\* Entering the with-block: the check of the global before the try.
EnterWith(u) ==
    /\ db.users[u].phase = "out"
    /\ db' = [db EXCEPT !.users[u] =
                 IF db.pool THEN [NoUse EXCEPT !.phase = "try"]
                 ELSE [NoUse EXCEPT !.outcome = "RuntimeError"]]
    /\ UNCHANGED <<single, service, hist, runs>>

\* _connection_pool.acquire(): a connection is checked out, or the call
\* raises (exhausted pool after the timeout, network) and the except and
\* finally clauses run with connection = None; the global is read again, so
\* a pool closed since the check gives an AttributeError.
Acquire(u) ==
    /\ db.users[u].phase = "try"
    /\ \E ok \in BOOLEAN :
          IF ~db.pool
          THEN db' = [db EXCEPT !.users[u] = [@ EXCEPT !.phase = "out", !.outcome = "AttributeError"]]
          ELSE IF ok /\ db.busy < PoolMax
          THEN db' = [db EXCEPT !.busy = @ + 1,
                                !.users[u] = [@ EXCEPT !.phase = "body", !.acquired = TRUE]]
          ELSE db' = [db EXCEPT !.users[u] = [@ EXCEPT !.phase = "out", !.outcome = "oracledb.Error"]]
    /\ UNCHANGED <<single, service, hist, runs>>

\* The with-block's body ends: the except clause logs and re-raises an
\* oracledb.Error, the finally clause closes the connection.
ExitWith(u) ==
    /\ db.users[u].phase = "body"
    /\ \E how \in BodyExits, closeOk \in BOOLEAN :
          db' = [db EXCEPT !.busy = ReleaseOnExit(@, how),
                           !.users[u] = [@ EXCEPT !.phase = "out",
                                                  !.release_error = ~closeOk,
                                                  !.outcome = how]]
    /\ UNCHANGED <<single, service, hist, runs>>

PoolNext ==
    \/ InitializePool
    \/ ClosePool
    \/ \E u \in 1..MaxUsers : EnterWith(u)
    \/ \E u \in 1..MaxUsers : Acquire(u)
    \/ \E u \in 1..MaxUsers : ExitWith(u)

PoolSpec == PoolInit /\ [][PoolNext]_vars

\* ================================================================= claims
Terminal(e) == e.type \in {"complete", "error"}

CountType(ty) == Cardinality({i \in 1..Len(events) : events[i].type = ty})

NoDuplicates(s) == \A i, j \in 1..Len(s) : s[i] = s[j] => i = j

\* The try-body of the i-th handler invocation raised inside execute().
HandlerFailed(i) == Body(log[i].cap, log[i].o).raised

\* Some handler contributed a result that carries the error flag.
AnyErrorResult ==
    \E i \in 1..Len(log) : \E j \in 1..Len(log[i].results) : log[i].results[j].error

Returned == final.kind \in {"result", "error_result"}

RECURSIVE SpecialistEvents(_)
SpecialistEvents(r) ==
    IF r = <<>> THEN <<>>
    ELSE <<Event("specialist_start", Head(r)), Event("specialist_complete", Head(r))>>
            \o SpecialistEvents(Tail(r))

\* C1: whenever the synthesizer is called, by chat's graph or by chat_stream,
\* the summaries it receives are exactly one per entry of the routing
\* decision R, the i-th being the result the handler of R[i] produced.
C1_SummariesMatchRouting ==
    synthIn.entered =>
        /\ Len(synthIn.summaries) = Len(R)
        /\ Len(log) = Len(R)
        /\ \A i \in 1..Len(R) :
              /\ log[i].cap = R[i]
              /\ synthIn.summaries[i] = log[i].results[1]

\* C2: a finished chat_stream run over the routing decision R has emitted
\* exactly thinking, routing, specialist_start/specialist_complete for each
\* entry of R in order, synthesizing, complete, and nothing else.
C2_EventSequence ==
    (mode = "stream" /\ pc = "done") =>
        events = <<Event("thinking", "-"), Event("routing", "-")>>
                    \o SpecialistEvents(R)
                    \o <<Event("synthesizing", "-"), Event("complete", "-")>>

C4_InternalErrorsFlagged ==
    \A i \in 1..Len(log) :
        (~log[i].o.tool \/ ~log[i].o.sum) =>
            /\ Len(log[i].results) = 1
            /\ log[i].results[1].error
            /\ Returned => final.has_errors

RawPayload == {"raw", "exc", "trace", "code"}

\* C5: no summary in the shared state contains raw tool output, exception
\* or stack-trace text, or generated code.
C5_NoRawPayloadInSummaries ==
    \A i \in 1..Len(st.specialist_summaries) :
        \A j \in 1..Len(st.specialist_summaries[i].summary) :
            st.specialist_summaries[i].summary[j] \notin RawPayload

ForbiddenMarkers == {"fence", "trace"}

\* C6: no result produced by a handler has a summary with a forbidden
\* raw-syntax marker (a code fence, a stack trace).
C6_NoForbiddenMarkers ==
    \A i \in 1..Len(log) : \A k \in 1..Len(log[i].results) :
        \A j \in 1..Len(log[i].results[k].summary) :
            log[i].results[k].summary[j] \notin ForbiddenMarkers

ComposerFailed == synthIn.entered /\ ~synthIn.genOk

C8_OneTerminalEvent ==
    mode = "stream" =>
        /\ \A i \in 1..(Len(events) - 1) : ~Terminal(events[i])
        /\ pc = "done" =>
              /\ Len(events) >= 1
              /\ Terminal(events[Len(events)])
              /\ CountType("complete") + CountType("error") = 1

\* C8 witness: a stream read to its end, ending in complete.
C8_Witness ==
    /\ mode = "stream" /\ pc = "done"
    /\ events[Len(events)].type = "complete"
    /\ Len(events) >= 6

\* C9 as stated: in the result of a run, has_errors is true exactly when
\* some handler's result carries the error flag.
C9_HasErrorsIffErrorResult ==
    Returned => (final.has_errors <=> AnyErrorResult)

\* C9 amended: has_errors is true exactly when some handler's result carries
\* the error flag, or the composer's generation call failed, or chat's
\* graph run raised and chat returned its error response.
C9_HasErrorsCauses ==
    Returned =>
        (final.has_errors <=>
            (AnyErrorResult \/ ComposerFailed \/ final.kind = "error_result"))

\* C9 witness: a composed result with has_errors = true from one failed and
\* one successful handler.
C9_Witness ==
    /\ final.kind = "result" /\ final.has_errors
    /\ synthIn.genOk
    /\ Len(log) = 2
    /\ log[1].results[1].error /\ ~log[2].results[1].error

Filtered(names) == SelectSeq(names, LAMBDA s : s \in Registry)

NoAdjacentRepeat(s) == \A i \in 1..(Len(s) - 1) : s[i] # s[i + 1]

\* The classification call returned a list.
ClassifierAnswered == classified.made /\ classified.ok

\* C11 as stated: when the classification call returns a list, the router's
\* output is that list filtered to the registered names (every element
\* registered, order kept, unknown names dropped), and the run does not fail.
C11_OutputIsFilteredProposal ==
    ClassifierAnswered =>
        /\ R = Filtered(classified.names)
        /\ \A i \in 1..Len(R) : R[i] \in Registry
        /\ pc = "done" => final.kind = "result"

\* C11 amended: when the classification call returns a list, the router's
\* output is that list filtered to the registered names, order kept, unknown
\* names dropped, or the one-element default [sql_specialist] when no proposed
\* name is registered; every element is registered; and the run does not
\* fail (in chat's graph: unless the output names a capability twice in a row).
C11_FilteredOrDefault ==
    ClassifierAnswered =>
        /\ R = IF Filtered(classified.names) = <<>> THEN <<"sql_specialist">>
               ELSE Filtered(classified.names)
        /\ \A i \in 1..Len(R) : R[i] \in Registry
        /\ (pc = "done" /\ (mode = "stream" \/ NoAdjacentRepeat(R))) =>
              /\ final.kind = "result"
              /\ Len(log) = Len(R)

\* C11 witness: a finished run whose classifier proposed an unknown name
\* between two registered ones.
C11_Witness ==
    /\ pc = "done" /\ ClassifierAnswered
    /\ Len(classified.names) = 3 /\ classified.names[2] \notin Registry
    /\ Len(R) = 2 /\ R = <<classified.names[1], classified.names[3]>>
    /\ final.kind = "result"

\* The classification call returned a list with no registered name in it.
ClassifierProposesNothing == ClassifierAnswered /\ Filtered(classified.names) = <<>>

C13_ClassifierFailureDefaults ==
    (classified.made /\ ~classified.ok) =>
        /\ R = <<"sql_specialist">>
        /\ mode = "stream" => CountType("error") = 0
        /\ pc = "done" =>
              /\ Len(log) = 1 /\ log[1].cap = "sql_specialist"
              /\ synthIn.entered
              /\ final.kind = "result"

\* C13 witness: a finished stream whose classification call raised.
C13_Witness ==
    /\ mode = "stream" /\ pc = "done"
    /\ classified.made /\ ~classified.ok
    /\ Len(log) = 1
    /\ events[Len(events)].type = "complete"

\* C14: chat_stream has at most one handler in flight: every
\* specialist_start is followed at once by the specialist_complete of the
\* same capability, or is the last event while that handler is dispatched;
\* a handler is dispatched only when the results of all earlier queue
\* entries are in the shared state.  In both entry points the result of
\* every handler invoked so far is in the shared state.
C14_OneHandlerInFlight ==
    /\ mode = "stream" =>
          /\ \A k \in 1..Len(events) :
                events[k].type = "specialist_start" =>
                   IF k = Len(events) THEN pc = "s_dispatched"
                   ELSE events[k + 1] = Event("specialist_complete", events[k].specialist)
          /\ CountType("specialist_start") - CountType("specialist_complete") \in {0, 1}
          /\ pc = "s_dispatched" =>
                /\ Len(log) = idx - 1
                /\ Len(st.specialist_summaries) = idx - 1
                /\ CountType("specialist_complete") = idx - 1
    /\ \A i \in 1..Len(log) :
          \E j \in 1..Len(st.specialist_summaries) :
             st.specialist_summaries[j] = log[i].results[1]

\* C14 witness: the second handler of a stream is dispatched after the
\* first one's specialist_complete.
C14_Witness ==
    /\ mode = "stream" /\ pc = "s_dispatched" /\ idx = 2
    /\ Len(log) = 1
    /\ events[Len(events)].type = "specialist_start"
    /\ events[Len(events) - 1].type = "specialist_complete"

\* The capabilities a run's handlers were invoked for, in order.
Invoked(run) == [i \in 1..Len(run.log) |-> run.log[i].cap]

BothDone == Len(runs) = 2 /\ runs[1].pc = "done" /\ runs[2].pc = "done"

\* C15: for the same routing decision and the same handler and composer
\* outcomes, chat and chat_stream invoke the same handlers in the same
\* order, hand the same summaries to the synthesizer and return the same
\* response, tools_used and has_errors.
C15_SamePipeline ==
    BothDone =>
        /\ runs[1].R = runs[2].R
        /\ Invoked(runs[1]) = Invoked(runs[2])
        /\ runs[1].synthIn.summaries = runs[2].synthIn.summaries
        /\ runs[1].final.response = runs[2].final.response
        /\ runs[1].final.tools_used = runs[2].final.tools_used
        /\ runs[1].final.has_errors = runs[2].final.has_errors

\* C16 as stated: in chat's graph, whenever the routing decision names the
\* same capability twice, the run does not complete normally.
C16_RepeatNeverCompletes ==
    (mode = "graph" /\ pc = "done" /\ ~NoDuplicates(R)) => final.kind = "error_result"

\* C16 amended: in chat's graph each specialist node removes the first
\* occurrence of its own name, so the queue is always the rest of the
\* routing decision; the run does not complete normally exactly when the
\* routing decision names the same capability twice in a row.  A capability
\* named twice with another one in between is invoked twice and the run
\* completes.
C16_AdjacentRepeatRaises ==
    (mode = "graph" /\ classified.made) =>
        /\ st.routing_decision = SubSeq(R, Len(log) + 1, Len(R))
        /\ pc = "done" =>
              /\ final.kind = "error_result" <=> ~NoAdjacentRepeat(R)
              /\ final.kind = "result" => Len(log) = Len(R)

\* C16 witness: a finished graph run over a routing decision whose first two
\* entries are the same capability: one handler ran, chat returned its error
\* response.
C16_Witness ==
    /\ mode = "graph" /\ pc = "done"
    /\ Len(R) = 3 /\ R[1] = R[2]
    /\ Len(log) = 1
    /\ final.kind = "error_result"

Occurrences(s, c) == Cardinality({i \in 1..Len(s) : s[i] = c})

\* C17: every handler invocation is the invocation of the routing entry at
\* its position: the i-th invocation is of R[i], there are no more
\* invocations than entries, and no capability is invoked more often than R
\* names it (so none that R does not name).
C17_AtMostOncePerEntry ==
    /\ Len(log) <= Len(R)
    /\ \A i \in 1..Len(log) : log[i].cap = R[i]
    /\ \A c \in Registry :
          Cardinality({i \in 1..Len(log) : log[i].cap = c}) <= Occurrences(R, c)

\* C17 witness: a finished run over three entries, one capability named
\* twice, with three invocations.
C17_Witness ==
    /\ pc = "done"
    /\ Len(R) = 3 /\ R[1] = R[3] /\ R[1] # R[2]
    /\ Len(log) = 3

RECURSIVE Results(_)
\* The results of a run's handler invocations, in order.
Results(lg) == IF lg = <<>> THEN <<>> ELSE Head(lg).results \o Results(Tail(lg))

\* C18: of two interleaved chat_stream runs on the one AIService, each has
\* its own history, takes its queue from its own routing, holds in its
\* state exactly the results of its own handlers, hands exactly those to the
\* synthesizer and builds its final result from them.
C18_RunsIndependent ==
    \A r \in DOMAIN runs :
        LET run == runs[r]
            own == [specialist_summaries |-> Results(run.log)]
        IN  /\ run.st.chat_history = NewRun("stream", FALSE,
                                            IF r = 1 THEN <<>>
                                            ELSE <<[role |-> "user", content |-> <<"nl">>]>>
                                           ).st.chat_history
            /\ run.classified.made =>
                  run.R = Route([ok |-> run.classified.ok, names |-> run.classified.names])
            /\ \A i \in 1..Len(run.log) : run.log[i].cap = run.R[i]
            /\ run.st.specialist_summaries = Results(run.log)
            /\ run.synthIn.entered => run.synthIn.summaries = Results(run.log)
            /\ run.final.kind = "result" =>
                  LET syn == Synthesize(own, run.synthIn.genOk)
                  IN  /\ run.final.response = syn.final_response
                      /\ run.final.tools_used = syn.tools_used
                      /\ run.final.has_errors = syn.has_errors

\* C18 witness: both runs are in their loops at once, each with one handler
\* done, over different routing decisions.
C18_Witness ==
    /\ runs[1].pc = "s_dispatched" /\ Len(runs[1].log) = 1
    /\ runs[2].pc = "s_loop" /\ Len(runs[2].log) = 1
    /\ runs[1].R # runs[2].R

\* C19: once the consumer of a chat_stream run has stopped reading, the run
\* stays where it was: no capability still in its queue is invoked, the
\* synthesizer is not invoked and no further event is produced.
C19_ClosedRunIsAbandoned ==
    \A r \in DOMAIN runs :
        runs[r].closed.is =>
            /\ runs[r].pc = "closed"
            /\ Len(runs[r].events) = runs[r].closed.events
            /\ Len(runs[r].log) = runs[r].closed.handlers
            /\ runs[r].synthIn.entered = runs[r].closed.synth
            /\ runs[r].final.kind = "none" \/ runs[r].closed.synth

\* C19 witness: a run closed after its first handler, with a capability
\* still queued and the synthesizer not reached, while the other run has
\* gone on to its end.
C19_Witness ==
    /\ runs[1].closed.is
    /\ Len(runs[1].log) = 1 /\ Len(runs[1].R) = 2
    /\ ~runs[1].synthIn.entered
    /\ runs[2].pc = "done"

\* C20: when the deadline of a run passes while a handler is dispatched,
\* that handler is recorded with the error flag, no later queue entry is
\* executed, and the run still reaches the synthesizer and returns a result.
C20_DeadlineAbortsHandler ==
    \A r \in DOMAIN runs :
        LET run == runs[r]
            d == run.deadline
        IN  (d > 0 /\ Len(run.log) >= d) =>
                /\ run.log[d].results[1].error
                /\ Len(run.log) = d
                /\ run.pc = "done" => run.synthIn.entered /\ run.final.kind = "result"

\* One of the three recoverable failures happened in the run: the
\* classification call raised, it proposed a name that is not registered, or
\* the try-body of a handler raised.
RecoverableFailure ==
    /\ classified.made
    /\ \/ ~classified.ok
       \/ \E i \in 1..Len(classified.names) : classified.names[i] \notin Registry
       \/ \E i \in 1..Len(log) : HandlerFailed(i)

Responded == runs # <<>> /\ runs[1].pc = "responded" /\ runs[1].http.status = 200

\* C22: the response of /chat carries a has_errors field whose value is the
\* has_errors of the run's final result.
C22_ResponseCarriesHasErrors ==
    Responded =>
        /\ "has_errors" \in DOMAIN runs[1].http.body
        /\ runs[1].http.body.has_errors = runs[1].final.has_errors

\* C23: in every response of /chat and /analyze intermediate_steps is the
\* empty list, whatever the handlers returned and whether or not the run had
\* errors, and tool_calls equals the run's tools_used.
C23_NoIntermediateSteps ==
    Responded =>
        /\ runs[1].http.body.intermediate_steps = <<>>
        /\ runs[1].http.body.tool_calls = runs[1].final.tools_used
        /\ runs[1].final.kind = "result" => runs[1].final.tools_used = runs[1].st.tools_used

\* C23 witness: a response to a run with errors that used two tools.
C23_Witness ==
    /\ Responded
    /\ runs[1].final.has_errors
    /\ Len(runs[1].http.body.tool_calls) >= 2
    /\ Len(runs[1].log) = 2

\* C29: over any sequence of get_ai_service calls AIService is constructed
\* at most once, every call that returns returns the stored instance, the
\* instance is unset as long as no construction has succeeded, and every
\* call made while it is unset attempts a construction: the attempts are
\* the calls that raised plus the one that succeeded.
C29_ServiceConstructedOnce ==
    /\ service.constructed <= 1
    /\ (service.instance = 0) <=> (service.constructed = 0)
    /\ service.instance = 0 => service.served = <<>>
    /\ \A i \in 1..Len(service.served) : service.served[i] = service.instance
    /\ service.attempts = (service.requests - Len(service.served)) + service.constructed

\* C29 witness: a first call raised, the second constructed the service, the
\* third got the same instance.
C29_Witness ==
    /\ service.requests = 3
    /\ service.attempts = 2 /\ service.constructed = 1
    /\ Len(service.served) = 2
    /\ service.served[1] = service.served[2]

\* The messages the formatted history shows, in the order it shows them.
Shown == [k \in 1..(Len(hist.formatted) - 1) |-> hist.formatted[k + 1].id]

\* C24: the conversation context of the composer is the trailing window of
\* the history: no message older than the last 6 is shown, every user or
\* assistant message among the last 6 is shown (all of them when the
\* history has at most 6 messages), in the original order, the most recent
\* last.
C24_TrailingWindow ==
    hist.called =>
        LET h == hist.chat_history
            n == Len(h)
        IN  /\ \A k \in 1..Len(Shown) : Shown[k] \in 1..n /\ Shown[k] > n - 6
            /\ \A i \in 1..n :
                  (i > n - 6 /\ h[i].role \in {"user", "assistant"}) =>
                      \E k \in 1..Len(Shown) : Shown[k] = i
            /\ \A k \in 1..(Len(Shown) - 1) : Shown[k] < Shown[k + 1]
            /\ (h # <<>>) <=> (hist.formatted # <<>>)

\* C24 witness: a history of seven user and assistant messages, of which the
\* last six are shown and the first is not.
C24_Witness ==
    /\ hist.called
    /\ Len(hist.chat_history) = 7
    /\ \A i \in 1..7 : hist.chat_history[i].role \in {"user", "assistant"}
    /\ Shown = <<2, 3, 4, 5, 6, 7>>

\* C25: in one run the classifier is called once, before any handler is
\* invoked, and not again when the call raised; from then on the routing
\* decision is fixed and the remaining queue never gains an entry.
C25_ClassifiedOnce ==
    [][/\ classified' # classified =>
             /\ ~classified.made /\ classified'.made
             /\ classified'.calls = 1
             /\ log = <<>> /\ log' = <<>>
       /\ log' # log => classified.made
       /\ classified.made =>
             /\ R' = R
             /\ Len(st'.routing_decision) <= Len(st.routing_decision)
      ]_vars

\* C25 witness: a finished run whose one classifier call raised.
C25_Witness ==
    /\ pc = "done"
    /\ classified.made /\ ~classified.ok /\ classified.calls = 1
    /\ Len(log) = 1

\* C26: a dispatch of capability c changes the run state only by removing
\* one occurrence of c from the remaining queue and appending c's result at
\* the end of the completed results; the other queue entries, the earlier
\* results, the request text and the history stay as they were.
C26_DispatchFrame ==
    [][Len(log') = Len(log) + 1 =>
          LET e == log'[Len(log')]
          IN  /\ st'.routing_decision = RemoveFirst(st.routing_decision, e.cap)
              /\ st'.specialist_summaries = st.specialist_summaries \o e.results
              /\ st'.user_query = st.user_query
              /\ st'.chat_history = st.chat_history
              /\ st'.final_response = st.final_response
              /\ st'.tools_used = st.tools_used
              /\ st'.has_errors = st.has_errors
      ]_vars

\* C27: the synthesizer is entered only when the remaining queue is empty,
\* in chat and in chat_stream, also when the routing decision names a
\* capability more than once.
C27_SynthesizerAfterQueueEmpty ==
    synthIn.entered => synthIn.queue = <<>> /\ Len(log) = Len(R)

\* C27 witness: a stream over a routing decision that names one capability
\* twice has entered the synthesizer.
C27_Witness ==
    /\ mode = "stream" /\ synthIn.entered
    /\ Len(R) = 2 /\ R[1] = R[2]
    /\ synthIn.queue = <<>>

\* C28: every run ends.  In chat's graph every dispatch shortens the
\* remaining queue by one entry, so there are at most |R| dispatches; the
\* run then reaches the synthesizer and the end, or chat's error response.
C28_RunTerminates ==
    /\ [](/\ Len(log) <= Len(R)
          /\ (mode = "graph" /\ classified.made) =>
                Len(st.routing_decision) = Len(R) - Len(log))
    /\ <>(pc = "done" /\ final.kind \in {"result", "error_result"})

\* C28 witness: a finished chat run after three dispatches.
C28_Witness ==
    /\ mode = "graph" /\ pc = "done"
    /\ Len(R) = 3 /\ Len(log) = 3
    /\ final.kind = "result"

\* The users that are inside the body of their with-block.
Holding == {u \in DOMAIN db.users : db.users[u].phase = "body"}

====
